---- MODULE Spec2Model ----
(***************************************************************************)
(* Model of scripts/registries-test.py: discovery of registries from the   *)
(* process environment, the build step, the per-registry test loop and     *)
(* the final summary / exit status.                                        *)
(*                                                                         *)
(* Text (variable names, values, the captured error stream) is a sequence  *)
(* of one-character strings, so that the regular expression, the case      *)
(* conversions, strip(), split() and startswith() are computed character   *)
(* by character as the interpreter computes them.                          *)
(***************************************************************************)
EXTENDS Integers, Sequences, FiniteSets, TLC

VARIABLES
    environ,     \* os.environ: ordered sequence of <<name, value>>, names unique
    pc,          \* position of main(): "build", "discover", "loop", "exited"
    registries,  \* the mapping returned by get_registries(), <<name, url>> in dict order
    todo,        \* the items of the mapping the for loop has not visited yet
    passed,      \* main: passed
    failed,      \* main: failed
    skipped,     \* main: skipped
    hist,        \* one record per loop iteration begun, in order
    last,        \* what the latest subprocess.run of run_test returned or raised
    buildCalls,  \* number of times build_uv ran "cargo build"
    buildResult, \* what "cargo build" did: "none" before it ran, else its outcome
    exit,        \* "running", or what ended the process: "build_uv.sys.exit",
                 \* "main.sys.exit", "traceback" (an exception nothing caught)
    exitCode,    \* process exit status once exit # "running"
    summary      \* <<>>, or once the "Results:" line is printed the one record
                 \* of what it and the guidance after it show

vars == <<environ, pc, registries, todo, passed, failed, skipped, hist, last,
          buildCalls, buildResult, exit, exitCode, summary>>

----------------------------------------------------------------------------
(* Bounds of the model *)

\* Longest captured error stream, in lines.
MaxLines == 3

----------------------------------------------------------------------------
(* Text *)

NL == "\n"

\* None, as returned by os.getenv for an unset variable; no text equals it.
None == <<"None">>

UpperCase == <<"A", "B", "C", "D", "E", "F", "G", "H", "I", "J", "K", "L", "M",
               "N", "O", "P", "Q", "R", "S", "T", "U", "V", "W", "X", "Y", "Z">>
LowerCase == <<"a", "b", "c", "d", "e", "f", "g", "h", "i", "j", "k", "l", "m",
               "n", "o", "p", "q", "r", "s", "t", "u", "v", "w", "x", "y", "z">>

\* str.lower()
lower(s) ==
    [i \in 1..Len(s) |->
        IF \E k \in 1..26 : UpperCase[k] = s[i]
        THEN LowerCase[CHOOSE k \in 1..26 : UpperCase[k] = s[i]]
        ELSE s[i]]

\* str.upper()
upper(s) ==
    [i \in 1..Len(s) |->
        IF \E k \in 1..26 : LowerCase[k] = s[i]
        THEN UpperCase[CHOOSE k \in 1..26 : LowerCase[k] = s[i]]
        ELSE s[i]]

\* str.startswith(prefix)
startswith(s, prefix) ==
    /\ Len(s) >= Len(prefix)
    /\ SubSeq(s, 1, Len(prefix)) = prefix

IsSpace(c) == c \in {" ", NL, "\t", "\r"}

RECURSIVE first_nonspace(_, _)
first_nonspace(s, i) ==
    IF i > Len(s) \/ ~IsSpace(s[i]) THEN i ELSE first_nonspace(s, i + 1)

RECURSIVE last_nonspace(_, _)
last_nonspace(s, i) ==
    IF i < 1 \/ ~IsSpace(s[i]) THEN i ELSE last_nonspace(s, i - 1)

\* str.strip(): drop the leading and the trailing whitespace of the whole text
strip(s) == SubSeq(s, first_nonspace(s, 1), last_nonspace(s, Len(s)))

\* The pieces of s from position start on, cut at each newline at or after i.
RECURSIVE split_from(_, _, _)
split_from(s, start, i) ==
    IF i > Len(s) THEN <<SubSeq(s, start, Len(s))>>
    ELSE IF s[i] = NL
         THEN <<SubSeq(s, start, i - 1)>> \o split_from(s, i + 1, i + 1)
         ELSE split_from(s, start, i + 1)

\* str.split("\n"): "" splits into [""]
split(s) == split_from(s, 1, 1)

----------------------------------------------------------------------------
(* Ordered mappings: os.environ and the dict built by get_registries *)

Keys(d) == {d[i][1] : i \in 1..Len(d)}

\* key in d
HasKey(d, key) == \E i \in 1..Len(d) : d[i][1] = key

\* d[key], for key in d
Lookup(d, key) == d[CHOOSE i \in 1..Len(d) : d[i][1] = key][2]

\* d[key] = value: an existing key keeps its place, a new key goes last
SetItem(d, key, value) ==
    IF HasKey(d, key)
    THEN [i \in 1..Len(d) |-> IF d[i][1] = key THEN <<key, value>> ELSE d[i]]
    ELSE Append(d, <<key, value>>)

\* os.getenv(key)
getenv(env, key) == IF HasKey(env, key) THEN Lookup(env, key) ELSE None

\* truth value of an Optional[str]: None and "" are false
Truthy(x) == x # None /\ x # <<>>

----------------------------------------------------------------------------
(* get_registries *)

UV_TEST_ == <<"U", "V", "_", "T", "E", "S", "T", "_">>
URL_SUFFIX == <<"_", "U", "R", "L">>

\* The lengths k of a group (.+) with which ^UV_TEST_(.+)_URL$ matches env_var:
\* '.' matches any character but a newline, '$' matches at the end of the text
\* and just before a newline that ends the text.
GroupLengths(env_var) ==
    {k \in 1..Len(env_var) :
        /\ startswith(env_var, UV_TEST_)
        /\ Len(env_var) >= Len(UV_TEST_) + k + Len(URL_SUFFIX)
        /\ \A i \in (Len(UV_TEST_) + 1)..(Len(UV_TEST_) + k) : env_var[i] # NL
        /\ SubSeq(env_var, Len(UV_TEST_) + k + 1,
                  Len(UV_TEST_) + k + Len(URL_SUFFIX)) = URL_SUFFIX
        /\ LET end == Len(UV_TEST_) + k + Len(URL_SUFFIX)
           IN  \/ Len(env_var) = end
               \/ Len(env_var) = end + 1 /\ env_var[end + 1] = NL}

\* pattern.match(env_var) is not None
pattern_match(env_var) == GroupLengths(env_var) # {}

\* match.group(1); the quantifier is greedy
group1(env_var) ==
    LET ks == GroupLengths(env_var)
        k == CHOOSE x \in ks : \A y \in ks : x >= y
    IN  SubSeq(env_var, Len(UV_TEST_) + 1, Len(UV_TEST_) + k)

RECURSIVE scan_environ(_, _)
scan_environ(items, acc) ==
    IF items = <<>> THEN acc
    ELSE LET env_var == items[1][1]
             value == items[1][2]
         IN  IF pattern_match(env_var)
             THEN scan_environ(Tail(items),
                               SetItem(acc, lower(group1(env_var)), value))
             ELSE scan_environ(Tail(items), acc)

get_registries(env) == scan_environ(env, <<>>)

----------------------------------------------------------------------------
(* run_test *)

UV_INDEX_ == <<"U", "V", "_", "I", "N", "D", "E", "X", "_">>
TOKEN_SUFFIX == <<"_", "T", "O", "K", "E", "N">>
PKG_SUFFIX == <<"_", "P", "K", "G">>
USERNAME_SUFFIX == <<"_", "U", "S", "E", "R", "N", "A", "M", "E">>
PASSWORD_SUFFIX == <<"_", "P", "A", "S", "S", "W", "O", "R", "D">>
DEFAULT_USERNAME == <<"_", "_", "t", "o", "k", "e", "n", "_", "_">>

\* f"UV_TEST_{registry_name.upper()}<suffix>"
test_var(registry_name, suffix) == UV_TEST_ \o upper(registry_name) \o suffix

\* f"UV_INDEX_{registry_name.upper()}<suffix>"
index_var(registry_name, suffix) == UV_INDEX_ \o upper(registry_name) \o suffix

\* f" + {package}=="
install_prefix(package) == <<" ", "+", " ">> \o package \o <<"=", "=">>

\* The success flag: some line of result.stderr.strip().split("\n") starts
\* with the install prefix.
installed(stderr, package) ==
    LET lines == split(strip(stderr))
    IN  \E i \in 1..Len(lines) : startswith(lines[i], install_prefix(package))

\* classify, were the exit status not looked at.
classify_ignoring_returncode(returncode, stderr, package) ==
    IF installed(stderr, package) THEN "PASS" ELSE "FAIL"

\* Status printed for an invocation that completed.
classify(returncode, stderr, package) ==
    IF returncode # 0 THEN "FAIL"
    ELSE IF installed(stderr, package) THEN "PASS"
    ELSE "FAIL"

\* The statements of run_test outside its try block that can raise:
\* tempfile.TemporaryDirectory() (no usable temporary directory) and the
\* write_text of setup_test_project (OSError, UnicodeEncodeError).
Faults == {"TemporaryDirectory", "write_text"}

\* Status printed by the handler of what subprocess.run raised.
except_status(kind) ==
    CASE kind = "TimeoutExpired" -> "TIMEOUT"
      [] kind = "FileNotFoundError" -> "ERROR"
      [] kind = "Exception" -> "ERROR"

\* run_test, were the credentials handed to the subprocess alone and the
\* process environment left as it was.
run_test_scoped_environ(env, registry_name, package, username, token, w) ==
    CASE w.fault \in Faults ->
                [environ |-> env, invoked |-> FALSE, status |-> "RAISED"]
      [] OTHER ->
                [environ |-> env, invoked |-> TRUE,
                 status |-> IF w.kind = "completed"
                            THEN classify(w.returncode, w.stderr, package)
                            ELSE except_status(w.kind)]

\* run_test: w says what the world does to this call: the statement that
\* raises before the try block (w.fault), or else what subprocess.run
\* returns or raises. The result holds the environment as the call leaves
\* it (the one subprocess.run inherits, when called), whether
\* subprocess.run was called, and the status: PASS (returns True),
\* FAIL / TIMEOUT / ERROR (returns False), or RAISED (an exception leaves
\* run_test).
run_test(env, registry_name, package, username, token, w) ==
    LET env1 == SetItem(env, index_var(registry_name, USERNAME_SUFFIX), username)
        env2 == SetItem(env1, index_var(registry_name, PASSWORD_SUFFIX), token)
    IN  CASE w.fault \in {"TemporaryDirectory", "write_text"} ->
                [environ |-> env2, invoked |-> FALSE, status |-> "RAISED"]
          [] OTHER ->
                [environ |-> env2, invoked |-> TRUE,
                 status |-> IF w.kind = "completed"
                            THEN classify(w.returncode, w.stderr, package)
                            ELSE except_status(w.kind)]

----------------------------------------------------------------------------
(* main *)

\* build_uv, were the exit status of the build not looked at.
build_uv_ignoring_returncode(outcome) ==
    CASE outcome = "0" -> "return"
      [] outcome = "1" -> "return"
      [] outcome = "FileNotFoundError" -> "raise"

\* build_uv, by what subprocess.run(["cargo", "build"]) did: "return" to main,
\* "sys.exit" (status 1), or "raise" (FileNotFoundError is not handled).
build_uv(outcome) ==
    CASE outcome = "0" -> "return"
      [] outcome = "1" -> "sys.exit"
      [] outcome = "FileNotFoundError" -> "raise"

\* missing, were only None false: an empty token or package is then tested.
missing_only_none(x) == x = None

\* `not token`, `not package`
missing(x) == ~Truthy(x)

\* os.getenv(...) or "__token__"
username_or_default(x) == IF Truthy(x) THEN x ELSE DEFAULT_USERNAME

\* exit_status, were the total not looked at: a run that tested nothing
\* exits 0.
exit_status_without_total(p, f) == IF f = 0 THEN 0 ELSE 1

\* The status main() exits with after the summary line.
exit_status(p, f) ==
    IF p + f = 0 THEN 1
    ELSE IF f = 0 THEN 0 ELSE 1

----------------------------------------------------------------------------
(* What the world can do *)

PKG == <<"p">>

LineInstalled == <<" ", "+", " ", "p", "=", "=", "1">>
LineOtherPkg == <<" ", "+", " ", "q", "=", "=", "1">>
LineOther == <<"x">>
LineKinds == {LineInstalled, LineOtherPkg, LineOther}

RECURSIVE join_lines(_)
join_lines(lines) ==
    IF lines = <<>> THEN <<>>
    ELSE lines[1] \o <<NL>> \o join_lines(Tail(lines))

\* Captured error streams: up to MaxLines lines, each ended by a newline.
Streams ==
    {join_lines(ls) : ls \in UNION {[1..n -> LineKinds] : n \in 0..MaxLines}}

NoStream == <<>>

World ==
    [fault : Faults, kind : {"none"}, returncode : {0}, stderr : {NoStream}]
    \cup [fault : {"none"}, kind : {"completed"}, returncode : {0, 1}, stderr : Streams]
    \cup [fault : {"none"}, kind : {"TimeoutExpired", "FileNotFoundError", "Exception"},
          returncode : {0}, stderr : {NoStream}]

\* Outcomes of subprocess.run(["cargo", "build"]): an exit status, or the
\* exception raised when cargo is not installed.
BuildOutcomes == {"0", "1", "FileNotFoundError"}

\* All environments holding, in the order of slots, one value of each slot
\* (None: the variable is unset).
RECURSIVE EnvsFrom(_)
EnvsFrom(slots) ==
    IF slots = <<>> THEN {<<>>}
    ELSE {IF v = None THEN rest ELSE <<<<slots[1][1], v>>>> \o rest :
            v \in slots[1][2], rest \in EnvsFrom(Tail(slots))}

Reverse(s) == [i \in 1..Len(s) |-> s[Len(s) + 1 - i]]

Var(name, suffix) == UV_TEST_ \o name \o suffix

MainSlots ==
    << <<Var(<<"A">>, URL_SUFFIX), {None, <<"u">>}>>,
       <<Var(<<"a">>, URL_SUFFIX), {None, <<"w">>}>>,
       <<Var(<<"b">>, URL_SUFFIX), {None, <<"v">>}>>,
       <<Var(<<"A">>, TOKEN_SUFFIX), {None, <<>>, <<"t">>}>>,
       <<Var(<<"A">>, PKG_SUFFIX), {None, <<>>, PKG}>>,
       <<Var(<<"A">>, USERNAME_SUFFIX), {None, <<>>, <<"n">>}>>,
       <<Var(<<"B">>, TOKEN_SUFFIX), {None, <<"s">>}>>,
       <<Var(<<"B">>, PKG_SUFFIX), {PKG}>> >>

MainEnvs == LET es == EnvsFrom(MainSlots) IN es \cup {Reverse(e) : e \in es}

\* Environments for get_registries alone: names that have the form
\* UV_TEST_<NAME>_URL (differing in case, with an inner _URL), names that
\* nearly have it, names with a newline in them, each set or unset, and
\* the other variables the program reads or writes, always set.
DiscoverSlots ==
    << <<Var(<<"A">>, URL_SUFFIX), {None, <<"u">>}>>,
       <<Var(<<"a">>, URL_SUFFIX), {None, <<"w">>}>>,
       <<Var(<<"A", "b">>, URL_SUFFIX), {None, <<"v">>}>>,
       <<Var(<<"A", "_", "U", "R", "L">>, URL_SUFFIX), {None, <<"u">>}>>,
       <<Var(<<>>, URL_SUFFIX), {None, <<"u">>}>>,
       <<Var(<<"A">>, URL_SUFFIX) \o <<NL>>, {None, <<"z">>}>>,
       <<Var(<<"A", NL, "B">>, URL_SUFFIX), {None, <<"u">>}>>,
       <<<<"X">> \o Var(<<"A">>, URL_SUFFIX), {None, <<"u">>}>>,
       <<Var(<<"A">>, URL_SUFFIX) \o <<"S">>, {None, <<"u">>}>>,
       <<lower(Var(<<"B">>, URL_SUFFIX)), {None, <<"u">>}>>,
       <<Var(<<"A">>, TOKEN_SUFFIX), {<<"t">>}>>,
       <<Var(<<"A">>, PKG_SUFFIX), {PKG}>>,
       <<Var(<<"A">>, USERNAME_SUFFIX), {<<"n">>}>>,
       <<UV_TEST_ \o <<"T", "I", "M", "E", "O", "U", "T">>, {<<"5">>}>>,
       <<UV_INDEX_ \o <<"A">> \o USERNAME_SUFFIX, {<<"n">>}>> >>

DiscoverEnvs == LET es == EnvsFrom(DiscoverSlots) IN es \cup {Reverse(e) : e \in es}

NoCall == [name |-> None, kind |-> "none", returncode |-> 0, stderr |-> NoStream,
           package |-> None, status |-> "none"]

----------------------------------------------------------------------------
(* Actions *)

Start(env, at) ==
    /\ environ = env
    /\ pc = at
    /\ registries = <<>>
    /\ todo = <<>>
    /\ passed = 0
    /\ failed = 0
    /\ skipped = 0
    /\ hist = <<>>
    /\ last = NoCall
    /\ buildCalls = 0
    /\ buildResult = "none"
    /\ exit = "running"
    /\ exitCode = 0
    /\ summary = <<>>

\* main() has parsed its arguments and set the three counters to zero.
Init == \E env \in MainEnvs : Start(env, "build")

\* main() prints "Building..." and calls build_uv(): sys.exit(1) on a
\* non-zero status; an exception of subprocess.run ends the process with a
\* traceback (status 1).
Build ==
    /\ pc = "build"
    /\ buildCalls' = buildCalls + 1
    /\ \E b \in BuildOutcomes :
          /\ buildResult' = b
          /\ CASE build_uv(b) = "return" ->
                  /\ pc' = "discover"
                  /\ UNCHANGED <<exit, exitCode>>
               [] build_uv(b) = "sys.exit" ->
                  /\ pc' = "exited"
                  /\ exit' = "build_uv.sys.exit"
                  /\ exitCode' = 1
               [] build_uv(b) = "raise" ->
                  /\ pc' = "exited"
                  /\ exit' = "traceback"
                  /\ exitCode' = 1
    /\ UNCHANGED <<environ, registries, todo, passed, failed, skipped, hist,
                   last, summary>>

\* The for statement evaluates get_registries().items() once.
Discover ==
    /\ pc = "discover"
    /\ registries' = get_registries(environ)
    /\ todo' = registries'
    /\ pc' = "loop"
    /\ UNCHANGED <<environ, passed, failed, skipped, hist, last, buildCalls,
                   buildResult, exit, exitCode, summary>>

\* One iteration of the for loop.
Iterate ==
    /\ pc = "loop"
    /\ todo # <<>>
    /\ LET registry_name == todo[1][1]
           registry_url == todo[1][2]
           token == getenv(environ, test_var(registry_name, TOKEN_SUFFIX))
           package == getenv(environ, test_var(registry_name, PKG_SUFFIX))
           username == username_or_default(
                           getenv(environ, test_var(registry_name, USERNAME_SUFFIX)))
           entry(status, invoked) ==
               [name |-> registry_name, url |-> registry_url, status |-> status,
                invoked |-> invoked, username |-> username, token |-> token,
                package |-> package]
       IN  /\ todo' = Tail(todo)
           /\ IF missing(token) \/ missing(package)
              THEN /\ skipped' = skipped + 1
                   /\ hist' = Append(hist, entry("SKIPPED", FALSE))
                   /\ UNCHANGED <<environ, pc, passed, failed, last, exit, exitCode>>
              ELSE \E w \in World :
                   \E r \in {run_test(environ, registry_name, package, username,
                                      token, w)} :
                       /\ environ' = r.environ
                       /\ hist' = Append(hist, entry(r.status, r.invoked))
                       /\ last' = IF r.invoked
                                  THEN [name |-> registry_name, kind |-> w.kind,
                                        returncode |-> w.returncode,
                                        stderr |-> w.stderr, package |-> package,
                                        status |-> r.status]
                                  ELSE last
                       /\ passed' = IF r.status = "PASS" THEN passed + 1 ELSE passed
                       /\ failed' = IF r.status \in {"FAIL", "TIMEOUT", "ERROR"}
                                    THEN failed + 1 ELSE failed
                       /\ UNCHANGED skipped
                       /\ IF r.status = "RAISED"
                          THEN /\ pc' = "exited"
                               /\ exit' = "traceback"
                               /\ exitCode' = 1
                          ELSE UNCHANGED <<pc, exit, exitCode>>
    /\ UNCHANGED <<registries, buildCalls, buildResult, summary>>

\* After the loop: the summary line, the guidance when nothing was tested,
\* and sys.exit.
Summarize ==
    /\ pc = "loop"
    /\ todo = <<>>
    /\ summary' = <<[passed |-> passed, total |-> passed + failed,
                     skipped |-> skipped, guidance |-> (passed + failed = 0)]>>
    /\ pc' = "exited"
    /\ exit' = "main.sys.exit"
    /\ exitCode' = exit_status(passed, failed)
    /\ UNCHANGED <<environ, registries, todo, passed, failed, skipped, hist,
                   last, buildCalls, buildResult>>

Next == Build \/ Discover \/ Iterate \/ Summarize

Spec == Init /\ [][Next]_vars

\* get_registries() on its own, over a wider set of environments.
InitDiscover == \E env \in DiscoverEnvs : Start(env, "discover")

NextDiscover == Discover

SpecDiscover == InitDiscover /\ [][NextDiscover]_vars

----------------------------------------------------------------------------
(* Vocabulary of the properties *)

\* The variable is absent from the environment, or empty.
AbsentOrEmpty(env, var) == ~HasKey(env, var) \/ Lookup(env, var) = <<>>

\* The text has a line that begins with prefix: prefix stands at the start
\* of the text or right after a newline.
HasLineStarting(text, prefix) ==
    \E i \in 1..Len(text) :
        /\ i = 1 \/ text[i - 1] = NL
        /\ i + Len(prefix) - 1 <= Len(text)
        /\ SubSeq(text, i, i + Len(prefix) - 1) = prefix

\* The name has the form UV_TEST_<NAME>_URL with a non-empty <NAME>.
HasUrlForm(var) ==
    /\ Len(var) > Len(UV_TEST_) + Len(URL_SUFFIX)
    /\ SubSeq(var, 1, Len(UV_TEST_)) = UV_TEST_
    /\ SubSeq(var, Len(var) - Len(URL_SUFFIX) + 1, Len(var)) = URL_SUFFIX

\* The <NAME> part of such a name.
NamePart(var) == SubSeq(var, Len(UV_TEST_) + 1, Len(var) - Len(URL_SUFFIX))

\* The iterations begun so far that called subprocess.run.
Invoked == {i \in 1..Len(hist) : hist[i].invoked}

\* The iteration just begun, in the state after it.
Latest == hist[Len(hist)]

----------------------------------------------------------------------------
(* C1 *)

HeadSkippable ==
    /\ pc = "loop"
    /\ todo # <<>>
    /\ \/ AbsentOrEmpty(environ, UV_TEST_ \o upper(todo[1][1]) \o TOKEN_SUFFIX)
       \/ AbsentOrEmpty(environ, UV_TEST_ \o upper(todo[1][1]) \o PKG_SUFFIX)

\* C1: when the registry at the head of the loop has no token or no package
\* (variable absent or empty), the iteration adds exactly one to skipped,
\* leaves passed and failed as they are, calls no subprocess, leaves the
\* environment untouched (no UV_INDEX_<NAME>_USERNAME / _PASSWORD is set),
\* and the loop stands at the next registry; and no registry so skipped ever
\* has a subprocess call or a credential variable in the environment.
C1_MissingConfigSkips ==
    /\ [][HeadSkippable =>
            /\ skipped' = skipped + 1
            /\ passed' = passed
            /\ failed' = failed
            /\ environ' = environ
            /\ last' = last
            /\ hist' = Append(hist, Latest')
            /\ Latest'.name = todo[1][1]
            /\ Latest'.status = "SKIPPED"
            /\ ~Latest'.invoked
            /\ pc' = "loop"
            /\ exit' = "running"
            /\ todo' = Tail(todo)]_vars
    /\ [](\A i \in 1..Len(hist) :
            (\/ AbsentOrEmpty(environ, UV_TEST_ \o upper(hist[i].name) \o TOKEN_SUFFIX)
             \/ AbsentOrEmpty(environ, UV_TEST_ \o upper(hist[i].name) \o PKG_SUFFIX))
            => /\ hist[i].status = "SKIPPED"
               /\ ~hist[i].invoked
               /\ last.name # hist[i].name
               /\ ~HasKey(environ, UV_INDEX_ \o upper(hist[i].name) \o USERNAME_SUFFIX)
               /\ ~HasKey(environ, UV_INDEX_ \o upper(hist[i].name) \o PASSWORD_SUFFIX))

\* A registry whose token is set but empty was skipped, and the loop went on
\* to test the next registry.
C1_Witness ==
    /\ Len(hist) = 2
    /\ hist[1].status = "SKIPPED"
    /\ hist[1].token = <<>>
    /\ hist[2].invoked
    /\ skipped = 1

----------------------------------------------------------------------------
(* C2 *)

\* C2: an invocation that exited 0 and whose error stream has a line
\* beginning with " + <package>==", wherever the line stands, was classified
\* PASS and counted in passed.
C2_InstalledLinePasses ==
    (/\ last.kind = "completed"
     /\ last.returncode = 0
     /\ HasLineStarting(last.stderr, <<" ", "+", " ">> \o last.package \o <<"=", "=">>))
    => /\ last.status = "PASS"
       /\ passed >= 1

\* The same, for streams whose matching line is not the first line that is
\* not blank: this much the code does.
C2_InstalledLineAfterFirstPasses ==
    (/\ last.kind = "completed"
     /\ last.returncode = 0
     /\ \E i \in 2..Len(last.stderr) :
          /\ last.stderr[i - 1] = NL
          /\ \E j \in 1..(i - 2) : ~IsSpace(last.stderr[j])
          /\ HasLineStarting(SubSeq(last.stderr, i, Len(last.stderr)),
                             <<" ", "+", " ">> \o last.package \o <<"=", "=">>))
    => /\ last.status = "PASS"
       /\ passed >= 1

----------------------------------------------------------------------------
(* C3 *)

RanToCompletion ==
    /\ Len(hist') = Len(hist) + 1
    /\ Latest'.invoked
    /\ last'.kind = "completed"

\* C3: an invocation is PASS only if it exited 0 and its error stream has a
\* line beginning with " + <package>=="; a non-zero exit is FAIL whatever the
\* stream holds, an exit of 0 without such a line is FAIL, and in both cases
\* failed grows by one and passed stays.
C3_PassOnlyOnExitZeroAndLine ==
    /\ [][RanToCompletion =>
            LET line == HasLineStarting(last'.stderr,
                            <<" ", "+", " ">> \o last'.package \o <<"=", "=">>)
            IN  /\ last'.status = Latest'.status
                /\ last'.status = "PASS" => last'.returncode = 0 /\ line
                /\ passed' > passed => last'.status = "PASS"
                /\ (last'.returncode # 0 \/ ~line)
                   => /\ last'.status = "FAIL"
                      /\ failed' = failed + 1
                      /\ passed' = passed]_vars
    /\ [](\A i \in 1..Len(hist) :
            hist[i].status = "PASS" => hist[i].invoked /\ passed >= 1)

\* An invocation exited non-zero with a " + p==1" line (not the first) in
\* its error stream, and was counted as failed.
C3_Witness ==
    /\ last.kind = "completed"
    /\ last.returncode = 1
    /\ installed(last.stderr, last.package)
    /\ last.status = "FAIL"
    /\ failed = 1
    /\ passed = 0

----------------------------------------------------------------------------
(* C4 *)

\* C4: once the build succeeded and the loop completed, the exit status is
\* 1 when nothing was tested (passed + failed = 0), whatever skipped is;
\* otherwise it is 1 exactly when failed > 0 and 0 exactly when failed = 0.
C4_ExitStatusFromCounters ==
    summary # <<>> =>
        /\ exit = "main.sys.exit"
        /\ summary[1].passed = passed
        /\ summary[1].total = passed + failed
        /\ summary[1].skipped = skipped
        /\ passed + failed = 0 => exitCode = 1
        /\ passed + failed > 0 => /\ exitCode = 1 <=> failed > 0
                                  /\ exitCode = 0 <=> failed = 0

\* A run with one registry skipped and one passed exits 0.
C4_Witness ==
    /\ summary # <<>>
    /\ skipped = 1
    /\ passed = 1
    /\ failed = 0
    /\ exitCode = 0

\* A run in which every discovered registry was skipped exits 1.
C4_WitnessAllSkipped ==
    /\ summary # <<>>
    /\ skipped = 2
    /\ passed + failed = 0
    /\ exitCode = 1

----------------------------------------------------------------------------
(* C5 *)

\* C5: the build runs once, before anything else; when it exits non-zero
\* the process has ended with status 1, and no registry was discovered or
\* tested, no subprocess was called, the environment is as it was and the
\* counters are zero; nothing happens after the process has ended.
C5_BuildOnceAndFatal ==
    /\ [](/\ buildCalls <= 1
          /\ pc = "build" <=> buildCalls = 0
          /\ (registries # <<>> \/ hist # <<>> \/ last # NoCall \/ summary # <<>>)
             => buildCalls = 1 /\ buildResult = "0"
          /\ buildResult = "1"
             => /\ pc = "exited"
                /\ exit = "build_uv.sys.exit"
                /\ exitCode = 1
                /\ registries = <<>>
                /\ hist = <<>>
                /\ last = NoCall
                /\ passed = 0 /\ failed = 0 /\ skipped = 0
                /\ summary = <<>>)
    /\ [][/\ pc = "build" => environ' = environ
          /\ pc # "exited"]_vars

\* The build failed, in an environment that configures a registry fully.
C5_Witness ==
    /\ buildResult = "1"
    /\ pc = "exited"
    /\ get_registries(environ) # <<>>
    /\ ~AbsentOrEmpty(environ, UV_TEST_ \o <<"A">> \o TOKEN_SUFFIX)
    /\ ~AbsentOrEmpty(environ, UV_TEST_ \o <<"A">> \o PKG_SUFFIX)

----------------------------------------------------------------------------
(* C6 *)

TimedOut == \E i \in 1..Len(hist) : hist[i].status = "TIMEOUT"

\* C6: once an invocation has timed out it is counted in failed, and the
\* run is not aborted: the remaining registries are processed and the run
\* ends with the summary printed.
C6_TimeoutDoesNotAbort ==
    TimedOut =>
        /\ failed >= 1
        /\ exit # "traceback"
        /\ pc = "exited" => summary # <<>> /\ Len(hist) = Len(registries)

\* The step that times out adds one to failed alone and leaves the loop at
\* the next registry: the run is aborted only by an exception raised outside
\* the try block of a later call (see C7).
C6_TimeoutStep ==
    /\ [][(Len(hist') = Len(hist) + 1 /\ Latest'.status = "TIMEOUT") =>
            /\ failed' = failed + 1
            /\ passed' = passed
            /\ skipped' = skipped
            /\ pc' = "loop"
            /\ exit' = "running"
            /\ todo' = Tail(todo)]_vars
    /\ []((TimedOut /\ \A i \in 1..Len(hist) : hist[i].status # "RAISED")
            => /\ exit # "traceback"
               /\ pc = "exited" => summary # <<>> /\ Len(hist) = Len(registries))

----------------------------------------------------------------------------
(* C7 *)

\* C7: after a successful build nothing that goes wrong for one registry
\* ends the run: every iteration ends SKIPPED, PASS, FAIL, TIMEOUT or ERROR
\* and is counted, and a run that has ended has visited every registry and
\* printed the summary.
C7_NoRegistryEndsTheRun ==
    buildResult = "0" =>
        /\ exit # "traceback"
        /\ \A i \in 1..Len(hist) :
              hist[i].status \in {"SKIPPED", "PASS", "FAIL", "TIMEOUT", "ERROR"}
        /\ passed + failed + skipped = Len(hist)
        /\ pc = "exited" => summary # <<>> /\ Len(hist) = Len(registries)

----------------------------------------------------------------------------
(* C9 *)

Count(statuses) == Cardinality({i \in 1..Len(hist) : hist[i].status \in statuses})

\* C9: every registry the loop has taken up has added one to exactly one
\* counter, and subprocess.run was called at most once for it; when the
\* summary is printed passed + failed + skipped is the number of discovered
\* registries and passed + failed the number of calls of run_test.
C9_OneIncrementPerRegistry ==
    /\ passed = Count({"PASS"})
    /\ skipped = Count({"SKIPPED"})
    /\ failed = Len(hist) - passed - skipped
    /\ \A i, j \in 1..Len(hist) : hist[i].name = hist[j].name => i = j
    /\ summary # <<>> =>
          /\ passed + failed + skipped = Len(registries)
          /\ passed + failed = Len(hist) - Count({"SKIPPED"})

\* The same in the runs in which no call of run_test raised: this much the
\* code does; counters never decrease.
C9_WithoutRaise ==
    /\ []((\A i \in 1..Len(hist) : hist[i].status # "RAISED")
            => C9_OneIncrementPerRegistry)
    /\ [][passed' >= passed /\ failed' >= failed /\ skipped' >= skipped]_vars

----------------------------------------------------------------------------
(* C10 *)

CredentialsHeld(i, username) ==
    LET NAME == upper(hist[i].name)
    IN  /\ HasKey(environ, UV_INDEX_ \o NAME \o USERNAME_SUFFIX)
        /\ HasKey(environ, UV_INDEX_ \o NAME \o PASSWORD_SUFFIX)
        /\ Lookup(environ, UV_INDEX_ \o NAME \o USERNAME_SUFFIX) = username
        /\ HasKey(environ, UV_TEST_ \o NAME \o TOKEN_SUFFIX)
        /\ Lookup(environ, UV_INDEX_ \o NAME \o PASSWORD_SUFFIX)
             = Lookup(environ, UV_TEST_ \o NAME \o TOKEN_SUFFIX)

\* C10 as stated: from the call of subprocess.run for registry n on, the
\* environment holds UV_INDEX_<N>_USERNAME = the value of
\* UV_TEST_<N>_USERNAME ("__token__" when that variable is absent) and
\* UV_INDEX_<N>_PASSWORD = n's token, whatever the outcome and whatever
\* later iterations do.
C10_CredentialsWhenAbsent ==
    \A i \in Invoked :
        LET var == UV_TEST_ \o upper(hist[i].name) \o USERNAME_SUFFIX
        IN  CredentialsHeld(i, IF HasKey(environ, var)
                               THEN Lookup(environ, var)
                               ELSE DEFAULT_USERNAME)

\* C10 as amended: the username is "__token__" when UV_TEST_<N>_USERNAME is
\* absent or empty.
C10_CredentialsWhenAbsentOrEmpty ==
    \A i \in Invoked :
        LET var == UV_TEST_ \o upper(hist[i].name) \o USERNAME_SUFFIX
        IN  CredentialsHeld(i, IF AbsentOrEmpty(environ, var)
                               THEN DEFAULT_USERNAME
                               ELSE Lookup(environ, var))

\* Two registries were tested, the first timed out with an empty username
\* variable, and at the second call the environment holds both credentials.
C10_Witness ==
    /\ Len(hist) = 2
    /\ Invoked = {1, 2}
    /\ hist[1].status = "TIMEOUT"
    /\ last.name = hist[2].name
    /\ HasKey(environ, UV_TEST_ \o upper(hist[1].name) \o USERNAME_SUFFIX)
    /\ Lookup(environ, UV_TEST_ \o upper(hist[1].name) \o USERNAME_SUFFIX) = <<>>
    /\ CredentialsHeld(1, DEFAULT_USERNAME)
    /\ CredentialsHeld(2, DEFAULT_USERNAME)

----------------------------------------------------------------------------
(* C8 *)

UrlVars(env) == {var \in Keys(env) : HasUrlForm(var)}

\* C8: the keys of the mapping are exactly the lower-cased <NAME> parts of
\* the variables named UV_TEST_<NAME>_URL, each key once, mapped to the
\* value of such a variable.
C8_KeysAreUrlNames ==
    pc = "loop" =>
        /\ Keys(registries) = {lower(NamePart(var)) : var \in UrlVars(environ)}
        /\ Cardinality(Keys(registries)) = Len(registries)
        /\ \A i \in 1..Len(registries) :
              \E var \in UrlVars(environ) :
                  /\ lower(NamePart(var)) = registries[i][1]
                  /\ Lookup(environ, var) = registries[i][2]

\* The same for environments none of whose names holds a newline: this much
\* the code does.
C8_KeysAreUrlNamesNoNewline ==
    (\A var \in Keys(environ) : \A i \in 1..Len(var) : var[i] # NL)
        => C8_KeysAreUrlNames

====
